---- MODULE Spec2Model ----
(***************************************************************************)
(* Daily biosolid dispatch: the greedy solver (CorrectedSolver.solve_day)  *)
(* and the state-transition engine (BiosolidSimulator.run_day), driven day *)
(* by day as in run_simulation.                                            *)
(*                                                                         *)
(* Units.  The Python code computes in floats; the model computes the same *)
(* formulas exactly, in integers:                                          *)
(*   tons                 hundredths of a ton       (10.0 t   = 1000)      *)
(*   nitrogen             hundredths of a kg        (25 kg    = 2500)      *)
(*   credits, emissions,                                                   *)
(*   penalties, NCI       hundredths of a kg CO2e                          *)
(*   distance             km,  rainfall  mm,  area  ha                     *)
(* A date is its 1-based position in the calendar of the run.              *)
(***************************************************************************)
EXTENDS Integers, Sequences, FiniteSets, TLC

VARIABLES
    stps,             \* dm.stps: stp_id -> [daily_output, max_storage, current_storage]
    farms,            \* dm.farms: farm_id -> [zone, area_ha, distances]
    weather_df,       \* dm.weather_df: zone -> rainfall per date (one entry per row)
    n_demand_df,      \* dm.n_demand_df: date -> (farm_id -> demand per ha), rows may lack
    end_date,         \* last date of the run (run_simulation's end_date)
    curr_date,        \* run_simulation's curr_date
    pc,               \* where the driver is: "solve", "run", "done", "crashed"
    actions,          \* the action list handed to the last/next run_day
    solved,           \* TRUE when `actions` is what solve_day returned for curr_date
    start_storage,    \* stp_id -> current_storage when the day's run_day was entered
    result,           \* the DailyResult the last run_day returned
    daily_actions,    \* run_simulation's daily_actions: date -> what solve_day returned
    solution,         \* the rows written to solution.csv
    twin              \* when solve_day is called twice on the same date and tables,
                      \* one plant fuller the second time: that plant and what the
                      \* first call returned

vars == << stps, farms, weather_df, n_demand_df, end_date, curr_date, pc,
           actions, solved, start_storage, result, daily_actions, solution, twin >>

----------------------------------------------------------------------------
(* Bounds of the model *)

\* number of simulated days when run_day is fed arbitrary action lists
MaxDay == 2
\* number of simulated days of the closed loop (solve_day then run_day)
LoopDays == 3
\* longest arbitrary action list handed to run_day
MaxActions == 2

----------------------------------------------------------------------------
(* Program constants (config.json values as the repository documents them) *)

truck_capacity == 1000          \* 10 tons
emission_factor == 90           \* 0.9 kg CO2 per truck-km
n_content == 25                 \* kg N per ton of biosolid
synthetic_credit == 5           \* kg CO2 per kg N taken up
soil_credit_per_ton == 200      \* (tons * 1000.0) * soil_credit, soil_credit = 0.2 per kg
leaching_penalty == 10          \* kg CO2 per kg excess N
buffer_percent == 10            \* application buffer, percent
rain_threshold == 30            \* mm
overflow_penalty == 1000        \* kg CO2 per ton
forecast_window == 5            \* days

\* CorrectedSolver's own constants
NEGLIGIBLE_LOAD == 100          \* "available < 1.0"
SOLVER_LOAD_CAP == 1000         \* min(available, 10.0), ceil(load_tons / 10.0)
SOLVER_SOIL_BENEFIT == 274      \* 1.37 * self.soil_credit (200.0) per ton
SOLVER_TRANSPORT_COST == 90     \* self.transport_cost_per_km = 0.9
SOLVER_N_OFFSET == 5            \* useful_n_kg * 5.0
SOLVER_LEACHING == 10           \* excess_n_kg * 10.0
PANIC_NUM == 4                  \* fill_ratio > 0.8, as 4/5
PANIC_DEN == 5

----------------------------------------------------------------------------
(* Arithmetic helpers *)

Min(a, b) == IF a <= b THEN a ELSE b
Max(a, b) == IF a >= b THEN a ELSE b

\* math.ceil(a / b) for a >= 0, b > 0
Ceil(a, b) == (a + b - 1) \div b

RECURSIVE SumSeq(_)
SumSeq(s) == IF s = << >> THEN 0 ELSE Head(s) + SumSeq(Tail(s))

----------------------------------------------------------------------------
(* DataManager: registries and lookups (src/src/data.py) *)

\* the registries' ids, in file (dict insertion) order
STP_IDS == << 1, 2 >>
FARM_IDS == << 1, 2 >>
ZONES == { 1, 2 }

Range(s) == { s[i] : i \in 1..Len(s) }

\* DataManager.get_weather_forecast(date, zone, lookahead_days)
get_weather_forecast_Unpadded(date, zone, lookahead_days) ==
    LET col == weather_df[zone] IN
    IF date \in 1..Len(col)
    THEN SubSeq(col, date, Min(date + lookahead_days - 1, Len(col)))
    ELSE << >>

get_weather_forecast(date, zone, lookahead_days) ==
    LET col == weather_df[zone] IN
    IF date \in 1..Len(col)
    THEN LET rainfall == SubSeq(col, date, Min(date + lookahead_days - 1, Len(col)))
         IN  rainfall \o [ i \in 1..(lookahead_days - Len(rainfall)) |-> 0 ]
    ELSE [ i \in 1..lookahead_days |-> 0 ]

\* DataManager.get_daily_demand_per_ha(date): {} when the date has no row
get_daily_demand_per_ha(date) ==
    IF date \in 1..Len(n_demand_df) THEN n_demand_df[date] ELSE << >>

\* per_ha_demands.get(farm_id, 0.0)
DemandGet_DefaultDemand(per_ha_demands, farm_id) ==
    IF farm_id \in DOMAIN per_ha_demands THEN per_ha_demands[farm_id] ELSE 50

DemandGet(per_ha_demands, farm_id) ==
    IF farm_id \in DOMAIN per_ha_demands THEN per_ha_demands[farm_id] ELSE 0

\* demand_per_ha * farm.area_ha, in hundredths of a kg (demand is in whole kg/ha)
total_demand_kg(date, farm_id) ==
    DemandGet(get_daily_demand_per_ha(date), farm_id) * farms[farm_id].area_ha * 100

\* total_demand_kg * (1.0 + buffer_percent), in hundredths of a kg
max_safe_n(date, farm_id) ==
    DemandGet(get_daily_demand_per_ha(date), farm_id) * farms[farm_id].area_ha
        * (100 + buffer_percent)

----------------------------------------------------------------------------
(* BiosolidSimulator.is_rain_locked (src/src/simulator.py) *)

is_rain_locked_AnyDay(date, zone) ==
    \E i \in 1..forecast_window :
        get_weather_forecast(date, zone, forecast_window)[i] > rain_threshold

is_rain_locked(date, zone) ==
    SumSeq(get_weather_forecast(date, zone, forecast_window)) > rain_threshold

----------------------------------------------------------------------------
(* CorrectedSolver.solve_day (src/algorithm_code/corrected_solver.py) *)

\* the triage key  s.current_storage / s.max_storage if s.max_storage > 0 else 0,
\* as a fraction FillNum / FillDen
FillNum(s) == IF s.max_storage > 0 THEN s.current_storage ELSE 0
FillDen(s) == IF s.max_storage > 0 THEN s.max_storage ELSE 1

\* key(a) < key(b)
TriageLess_Ascending(a, b) ==
    FillNum(stps[b]) * FillDen(stps[a]) < FillNum(stps[a]) * FillDen(stps[b])

TriageLess(a, b) == FillNum(stps[a]) * FillDen(stps[b]) < FillNum(stps[b]) * FillDen(stps[a])

\* sorted(..., reverse=True) is stable: an element goes before the first one whose
\* key is strictly smaller
RECURSIVE TriageInsert(_, _)
TriageInsert(x, s) ==
    IF s = << >> THEN << x >>
    ELSE IF TriageLess(Head(s), x) THEN << x >> \o s
    ELSE << Head(s) >> \o TriageInsert(x, Tail(s))

RECURSIVE TriageSort(_)
TriageSort(s) ==
    IF s = << >> THEN << >>
    ELSE TriageInsert(s[Len(s)], TriageSort(SubSeq(s, 1, Len(s) - 1)))

sorted_stps == TriageSort(STP_IDS)

\* load_tons = min(available, 10.0)
load_tons_for(available) == Min(available, SOLVER_LOAD_CAP)

\* the Net Carbon Impact of one candidate route
net_carbon_impact(date, stp_id, farm_id, load_tons) ==
    LET dist == farms[farm_id].distances[stp_id]
        soil_benefit == load_tons * SOLVER_SOIL_BENEFIT
        load_n_kg == load_tons * n_content
        useful_n_kg == Min(load_n_kg, total_demand_kg(date, farm_id))
        n_offset_benefit == useful_n_kg * SOLVER_N_OFFSET
        trucks == Ceil(load_tons, SOLVER_LOAD_CAP)
        transport_cost == dist * SOLVER_TRANSPORT_COST * trucks
        excess_n_kg == Max(0, load_n_kg - max_safe_n(date, farm_id))
        leaching_cost == excess_n_kg * SOLVER_LEACHING
    IN  soil_benefit + n_offset_benefit - transport_cost - leaching_cost

\* SkipFarm without the visited_farms test
SkipFarm_IgnoresVisited(date, farm_id, visited_farms) ==
    is_rain_locked(date, farms[farm_id].zone)

\* SkipFarm without the rain-lock test
SkipFarm_IgnoresRain(date, farm_id, visited_farms) == farm_id \in visited_farms

\* the two `continue`s of the candidate loop: farm already visited, zone rain-locked
SkipFarm(date, farm_id, visited_farms) ==
    \/ farm_id \in visited_farms
    \/ is_rain_locked(date, farms[farm_id].zone)

\* delivery_options before sorting, in farm order
RECURSIVE delivery_options(_, _, _, _, _)
delivery_options(date, stp_id, available, visited_farms, fs) ==
    IF fs = << >> THEN << >>
    ELSE LET farm_id == Head(fs)
             rest == delivery_options(date, stp_id, available, visited_farms, Tail(fs))
         IN  IF SkipFarm(date, farm_id, visited_farms) THEN rest
             ELSE << [ net_benefit |-> net_carbon_impact(date, stp_id, farm_id,
                                                          load_tons_for(available)),
                       dist |-> farms[farm_id].distances[stp_id],
                       farm_id |-> farm_id,
                       load_tons |-> load_tons_for(available) ] >> \o rest

\* delivery_options.sort(key=lambda x: x[0], reverse=True), stable
RECURSIVE OptionInsert(_, _)
OptionInsert(x, s) ==
    IF s = << >> THEN << x >>
    ELSE IF Head(s).net_benefit < x.net_benefit THEN << x >> \o s
    ELSE << Head(s) >> \o OptionInsert(x, Tail(s))

\* the options walked in the order they were listed
OptionSort_Unsorted(s) == s

RECURSIVE OptionSort(_)
OptionSort(s) ==
    IF s = << >> THEN << >>
    ELSE OptionInsert(s[Len(s)], OptionSort(SubSeq(s, 1, Len(s) - 1)))

\* fill_ratio > 0.8 where fill_ratio = stp.current_storage / stp.max_storage
\* (evaluated only when max_storage > 0; see Dispatch)
\* the fill ratio taken after the day's production
PanicMode_CountsProduction(s) ==
    (s.current_storage + s.daily_output) * PANIC_DEN > PANIC_NUM * s.max_storage

PanicMode(s) == s.current_storage * PANIC_DEN > PANIC_NUM * s.max_storage

\* acceptance without the panic-mode override
Accept_PositiveOnly(net_benefit, s) == net_benefit > 0

\* acceptance of every candidate
Accept_Always(net_benefit, s) == TRUE

\* if net_benefit > 0 or fill_ratio > 0.8
Accept_RefusesInPanic(net_benefit, s) == net_benefit > 0 /\ ~PanicMode(s)

Accept(net_benefit, s) == net_benefit > 0 \/ PanicMode(s)

\* the amount without the cap at what is left
AmountFor_Uncapped(available, load_tons) == load_tons

\* amount = min(available, load_tons)
AmountFor(available, load_tons) == Min(available, load_tons)

\* if available < 1.0: continue (line 64) and if available < 1.0: break (line 116)
Negligible_Never(available) == FALSE

\* only a plant with nothing at all is passed over
Negligible_OnlyEmpty(available) == available <= 0

Negligible(available) == available < NEGLIGIBLE_LOAD

\* the dispatch loop over the sorted options of one plant.  raised = TRUE is the
\* ZeroDivisionError of  stp.current_storage / stp.max_storage  when max_storage = 0
RECURSIVE Dispatch(_, _, _, _, _)
Dispatch(stp_id, options, available, acts, visited_farms) ==
    IF options = << >> \/ Negligible(available)
    THEN [ actions |-> acts, visited_farms |-> visited_farms, raised |-> FALSE ]
    ELSE IF stps[stp_id].max_storage = 0
    THEN [ actions |-> acts, visited_farms |-> visited_farms, raised |-> TRUE ]
    ELSE LET o == Head(options) IN
         IF Accept(o.net_benefit, stps[stp_id])
         THEN LET amount == AmountFor(available, o.load_tons)
              IN  Dispatch(stp_id, Tail(options), available - amount,
                           Append(acts, [ stp_id |-> stp_id, farm_id |-> o.farm_id,
                                          amount_tons |-> amount ]),
                           visited_farms \cup { o.farm_id })
         ELSE [ actions |-> acts, visited_farms |-> visited_farms, raised |-> FALSE ]

\* available = stp.current_storage + stp.daily_output
available_tons(s) == s.current_storage + s.daily_output

\* the loop over sorted_stps
RECURSIVE PlantLoop(_, _, _, _)
PlantLoop(date, order, acts, visited_farms) ==
    IF order = << >> THEN [ actions |-> acts, raised |-> FALSE ]
    ELSE LET stp_id == Head(order)
             available == available_tons(stps[stp_id])
         IN  IF Negligible(available)
             THEN PlantLoop(date, Tail(order), acts, visited_farms)
             ELSE LET options == OptionSort(delivery_options(date, stp_id, available,
                                                             visited_farms, FARM_IDS))
                      r == Dispatch(stp_id, options, available, acts, visited_farms)
                  IN  IF r.raised THEN [ actions |-> r.actions, raised |-> TRUE ]
                      ELSE PlantLoop(date, Tail(order), r.actions, r.visited_farms)

solve_day(date) == PlantLoop(date, sorted_stps, << >>, { })

----------------------------------------------------------------------------
(* BiosolidSimulator.run_day (src/src/simulator.py) *)

\* trucks_needed = math.ceil(action.amount_tons / self.truck_capacity)
trucks_needed_RoundedDown(amount_tons) == amount_tons \div truck_capacity + 1

trucks_needed(amount_tons) == Ceil(amount_tons, truck_capacity)

\* (distance * trucks_needed) * self.emission_factor
ActionEmissions(a) ==
    (farms[a.farm_id].distances[a.stp_id] * trucks_needed(a.amount_tons)) * emission_factor

\* action.amount_tons * self.overflow_penalty for an action to a rain-locked farm
DumpPenalty(a) == a.amount_tons * overflow_penalty

\* the accumulators before the loop over the actions; a dict's missing key is 0
\* (farm_deliveries.get(id, 0), stp_dispatches.get(id, 0.0))
ZeroTally ==
    [ emissions |-> 0, penalties |-> 0, delivered |-> 0, banned |-> 0,
      farm_deliveries |-> [ f \in Range(FARM_IDS) |-> 0 ],
      stp_dispatches |-> [ p \in Range(STP_IDS) |-> 0 ] ]

\* the rain-locked branch with the rejected tons left in the plant
RejectAction_NotDebited(a, t) ==
    [ t EXCEPT !.penalties = @ + DumpPenalty(a),
               !.banned = @ + 1,
               !.emissions = @ + ActionEmissions(a) ]

\* one iteration of `for action in actions`, rain-locked branch
RejectAction(a, t) ==
    [ t EXCEPT !.penalties = @ + DumpPenalty(a),
               !.banned = @ + 1,
               !.emissions = @ + ActionEmissions(a),
               !.stp_dispatches[a.stp_id] = @ + a.amount_tons ]

\* one iteration of `for action in actions`, valid branch
ApplyAction_OnlyWhatIsThere(a, t) ==
    LET there == Max(0, available_tons(stps[a.stp_id]) - t.stp_dispatches[a.stp_id])
        taken == Min(a.amount_tons, there)
    IN  [ t EXCEPT !.emissions = @ + ActionEmissions(a),
                   !.farm_deliveries[a.farm_id] = @ + taken,
                   !.stp_dispatches[a.stp_id] = @ + a.amount_tons,
                   !.delivered = @ + taken ]

\* a later delivery to a farm replaces the earlier ones instead of adding to them
ApplyAction_LastDeliveryOnly(a, t) ==
    [ t EXCEPT !.emissions = @ + ActionEmissions(a),
               !.farm_deliveries[a.farm_id] = a.amount_tons,
               !.stp_dispatches[a.stp_id] = @ + a.amount_tons,
               !.delivered = @ + a.amount_tons ]

ApplyAction(a, t) ==
    [ t EXCEPT !.emissions = @ + ActionEmissions(a),
               !.farm_deliveries[a.farm_id] = @ + a.amount_tons,
               !.stp_dispatches[a.stp_id] = @ + a.amount_tons,
               !.delivered = @ + a.amount_tons ]

\* every action taken as valid
ProcessAction_NoRainCheck(date, a, t) == ApplyAction(a, t)

ProcessAction(date, a, t) ==
    IF is_rain_locked(date, farms[a.farm_id].zone) THEN RejectAction(a, t)
    ELSE ApplyAction(a, t)

RECURSIVE ProcessActions(_, _, _)
ProcessActions(date, acts, t) ==
    IF acts = << >> THEN t
    ELSE ProcessActions(date, Tail(acts), ProcessAction(date, Head(acts), t))

\* credits of one farm with delivered_tons: uptake credit + sequestration credit
FarmCredits(date, farm_id, delivered_tons) ==
    LET n_delivered_kg == delivered_tons * n_content
        uptake_kg == Min(n_delivered_kg, total_demand_kg(date, farm_id))
    IN  uptake_kg * synthetic_credit + delivered_tons * soil_credit_per_ton

\* leaching penalty of one farm with delivered_tons
FarmLeaching(date, farm_id, delivered_tons) ==
    LET n_delivered_kg == delivered_tons * n_content IN
    IF n_delivered_kg > max_safe_n(date, farm_id)
    THEN (n_delivered_kg - max_safe_n(date, farm_id)) * leaching_penalty
    ELSE 0

\* `for farm_id, delivered_tons in farm_deliveries.items()`: a farm without a
\* delivery is not in the dict and adds nothing, exactly as one with 0 tons
RECURSIVE FarmImpacts(_, _, _)
FarmImpacts(date, fs, farm_deliveries) ==
    IF fs = << >> THEN [ credits |-> 0, penalties |-> 0 ]
    ELSE LET f == Head(fs)
             rest == FarmImpacts(date, Tail(fs), farm_deliveries)
         IN  [ credits |-> FarmCredits(date, f, farm_deliveries[f]) + rest.credits,
               penalties |-> FarmLeaching(date, f, farm_deliveries[f]) + rest.penalties ]

\* stp.current_storage = max(0.0, available_tons - attempted_dispatch)
SettledStorage(s, attempted_dispatch) == Max(0, available_tons(s) - attempted_dispatch)

\* the excess dropped without being counted
Overflow_Unreported(s, attempted_dispatch) == 0

\* excess = stp.current_storage - stp.max_storage when above capacity
Overflow(s, attempted_dispatch) ==
    IF SettledStorage(s, attempted_dispatch) > s.max_storage
    THEN SettledStorage(s, attempted_dispatch) - s.max_storage
    ELSE 0

\* the end-of-day storage without the reset to max_storage
EndStorage_NoCap(s, attempted_dispatch) == SettledStorage(s, attempted_dispatch)

\* current_storage at the end of the plant's iteration
EndStorage(s, attempted_dispatch) ==
    IF SettledStorage(s, attempted_dispatch) > s.max_storage
    THEN s.max_storage
    ELSE SettledStorage(s, attempted_dispatch)

\* excess * self.overflow_penalty
OverflowPenalty(excess) == excess * overflow_penalty

RECURSIVE StpOverflow(_, _)
StpOverflow(ps, stp_dispatches) ==
    IF ps = << >> THEN 0
    ELSE Overflow(stps[Head(ps)], stp_dispatches[Head(ps)])
            + StpOverflow(Tail(ps), stp_dispatches)

RECURSIVE StpPenalties(_, _)
StpPenalties(ps, stp_dispatches) ==
    IF ps = << >> THEN 0
    ELSE OverflowPenalty(Overflow(stps[Head(ps)], stp_dispatches[Head(ps)]))
            + StpPenalties(Tail(ps), stp_dispatches)

\* the plants after `for stp_id, stp in self.dm.stps.items()`
StpsAfter(stp_dispatches) ==
    [ p \in DOMAIN stps |->
        [ stps[p] EXCEPT !.current_storage = EndStorage(stps[p], stp_dispatches[p]) ] ]

\* the net score with the penalties left out
NetScore_NoPenalties(credits, emissions, penalties) == credits - emissions

\* net_score=daily_credits - daily_emissions - daily_penalties
NetScore(credits, emissions, penalties) == credits - emissions - penalties

\* the DailyResult of run_day(date, acts) in the current state
DailyResult(date, acts) ==
    LET t == ProcessActions(date, acts, ZeroTally)
        fi == FarmImpacts(date, FARM_IDS, t.farm_deliveries)
        daily_credits == fi.credits
        daily_emissions == t.emissions
        daily_penalties == t.penalties + fi.penalties
                              + StpPenalties(STP_IDS, t.stp_dispatches)
    IN  [ date |-> date,
          credits |-> daily_credits,
          emissions |-> daily_emissions,
          penalties |-> daily_penalties,
          net_score |-> NetScore(daily_credits, daily_emissions, daily_penalties),
          delivered_tons |-> t.delivered,
          overflow_tons |-> StpOverflow(STP_IDS, t.stp_dispatches),
          banned_actions |-> t.banned ]

\* no run_day has returned yet
NoResult ==
    [ date |-> 0, credits |-> 0, emissions |-> 0, penalties |-> 0, net_score |-> 0,
      delivered_tons |-> 0, overflow_tons |-> 0, banned_actions |-> 0 ]

----------------------------------------------------------------------------
(* The inputs: registries, tables and action lists the runs are checked on *)

\* rows 1..DataDays of daily_weather_2025.csv and daily_n_demand.csv
DataDays == 6

\* (daily_output_tons, storage_max_tons) of stp_registry.csv rows: a plant that
\* fills to 95% in a day, a slow one, and one without storage
Fast == [ daily_output |-> 950, max_storage |-> 1000 ]
Slow == [ daily_output |-> 90, max_storage |-> 1000 ]
NoTank == [ daily_output |-> 120, max_storage |-> 0 ]

PlantRegistries ==
    { << Fast, Fast >>, << Slow, Fast >>, << Fast, Slow >>, << Fast, NoTank >>,
      << NoTank, Slow >> }

\* haversine distances of a farm to the plants: a near farm and a far one
Near == [ p \in Range(STP_IDS) |-> 10 * p ]
Far == [ p \in Range(STP_IDS) |-> 290 + 10 * p ]

\* a zone's rainfall column: no rain, or 15, 1, 15 and 15 mm on the first four
\* days (five-day sums 46, 31, 30, 15: no single day is above the threshold)
Dry == [ d \in 1..DataDays |-> 0 ]
Wet == [ d \in 1..DataDays |-> IF d = 2 THEN 1 ELSE IF d <= 4 THEN 15 ELSE 0 ]

WeatherTables == { << Dry, Dry >>, << Wet, Dry >>, << Wet, Wet >> }

\* a row of the demand table (kg N per ha by farm): no farm, or farm 2 only
NoDemand == [ f \in { } |-> 0 ]
Farm2Demand == [ f \in { 2 } |-> 50 ]

\* farm_locations.csv with daily_n_demand.csv: the sites of farms 1 and 2 and the
\* demand row of every date
FarmTables ==
    { [ site |-> << Near, Near >>, demand |-> NoDemand ],
      [ site |-> << Far, Far >>, demand |-> NoDemand ],
      [ site |-> << Far, Near >>, demand |-> NoDemand ],
      [ site |-> << Near, Far >>, demand |-> Farm2Demand ] }

\* the actions an arbitrary proposer hands to run_day: every route, with a part
\* load (2.5 tons) or more than a truck and more than a day's output (12 tons)
ActionChoices ==
    { [ stp_id |-> 1, farm_id |-> 1, amount_tons |-> 250 ],
      [ stp_id |-> 1, farm_id |-> 2, amount_tons |-> 1200 ],
      [ stp_id |-> 2, farm_id |-> 1, amount_tons |-> 1200 ],
      [ stp_id |-> 2, farm_id |-> 2, amount_tons |-> 250 ] }

ActionLists == UNION { [ 1..n -> ActionChoices ] : n \in 0..MaxActions }

\* STP(...): current_storage defaults to 0.0
NewSTP(row) ==
    [ daily_output |-> row.daily_output, max_storage |-> row.max_storage,
      current_storage |-> 0 ]

CurrentStorage == [ p \in DOMAIN stps |-> stps[p].current_storage ]

----------------------------------------------------------------------------
(* The state machine: DataManager.__init__, then run_simulation's loop *)

\* solve_day is called once
NoTwin == [ stp_id |-> 0, actions |-> << >> ]

InitData ==
    /\ stps \in { [ p \in Range(STP_IDS) |-> NewSTP(rows[p]) ] : rows \in PlantRegistries }
    /\ \E ft \in FarmTables :
         /\ farms = [ f \in Range(FARM_IDS) |->
                        [ zone |-> f, area_ha |-> 5, distances |-> ft.site[f] ] ]
         /\ n_demand_df = [ d \in 1..DataDays |-> ft.demand ]
    /\ weather_df \in WeatherTables
    /\ curr_date = 1
    /\ pc = "solve"
    /\ actions = << >>
    /\ solved = FALSE
    /\ start_storage = [ p \in Range(STP_IDS) |-> 0 ]
    /\ result = NoResult
    /\ daily_actions = << >>
    /\ solution = << >>
    /\ twin = NoTwin

\* run_day may be handed any action list
Init == InitData /\ end_date = MaxDay

\* the closed loop of run_simulation
InitLoop == InitData /\ end_date = LoopDays

\* actions = solver.solve_day(date_str); daily_actions[date_str] = actions;
\* an exception ends the program
SolveDay_WritesStorage ==
    /\ pc = "solve"
    /\ LET r == solve_day(curr_date) IN
         /\ pc' = IF r.raised THEN "crashed" ELSE "run"
         /\ actions' = IF r.raised THEN << >> ELSE r.actions
         /\ solved' = ~r.raised
         /\ daily_actions' = IF r.raised THEN daily_actions
                             ELSE (curr_date :> r.actions) @@ daily_actions
    /\ stps' = [ p \in DOMAIN stps |->
                  [ stps[p] EXCEPT !.current_storage = available_tons(stps[p]) ] ]
    /\ UNCHANGED << farms, weather_df, n_demand_df, end_date, curr_date,
                    start_storage, result, solution, twin >>

SolveDay ==
    /\ pc = "solve"
    /\ LET r == solve_day(curr_date) IN
         /\ pc' = IF r.raised THEN "crashed" ELSE "run"
         /\ actions' = IF r.raised THEN << >> ELSE r.actions
         /\ solved' = ~r.raised
         /\ daily_actions' = IF r.raised THEN daily_actions
                             ELSE (curr_date :> r.actions) @@ daily_actions
    /\ UNCHANGED << stps, farms, weather_df, n_demand_df, end_date, curr_date,
                    start_storage, result, solution, twin >>

\* sim.run_day(date_str, acts)
RunDay(acts) ==
    /\ LET t == ProcessActions(curr_date, acts, ZeroTally) IN
         stps' = StpsAfter(t.stp_dispatches)
    /\ result' = DailyResult(curr_date, acts)
    /\ actions' = acts
    /\ start_storage' = CurrentStorage
    /\ pc' = "settled"
    /\ UNCHANGED << farms, weather_df, n_demand_df, end_date, curr_date,
                    daily_actions, solution, twin >>

\* run_simulation: run_day on what solve_day returned
RunDaySolved ==
    /\ pc = "run"
    /\ RunDay(actions)
    /\ UNCHANGED solved

\* run_day called by another proposer, with any action list
RunDayArbitrary ==
    /\ pc = "solve"
    /\ \E acts \in ActionLists : RunDay(acts)
    /\ solved' = FALSE

\* curr_date += timedelta(days=1) and the loop test; the day's action list and
\* DailyResult are not looked at again by the loop
NextDay ==
    /\ pc = "settled"
    /\ curr_date' = curr_date + 1
    /\ pc' = IF curr_date + 1 <= end_date THEN "solve" ELSE "done"
    /\ actions' = << >>
    /\ solved' = FALSE
    /\ start_storage' = CurrentStorage
    /\ result' = NoResult
    /\ UNCHANGED << stps, farms, weather_df, n_demand_df, end_date,
                    daily_actions, solution, twin >>

\* closest = sorted(farm.distances.items(), key=lambda x: x[1])[0][0]: the first
\* plant, in registry order, at the least distance
farm_closest_stp(farm_id) ==
    LET nearest == { i \in DOMAIN STP_IDS :
                       \A j \in DOMAIN STP_IDS :
                           farms[farm_id].distances[STP_IDS[i]]
                               <= farms[farm_id].distances[STP_IDS[j]] }
    IN  STP_IDS[CHOOSE i \in nearest : \A j \in nearest : i <= j]

\* key in action_map: solve_day returned an action to the farm on the date
InActionMap(date, farm_id) ==
    /\ date \in DOMAIN daily_actions
    /\ \E i \in DOMAIN daily_actions[date] : daily_actions[date][i].farm_id = farm_id

\* action_map[(date_str, action.farm_id)] = (action.stp_id, action.amount_tons):
\* a later action of the list to the same farm replaces an earlier one
action_map(date, farm_id) ==
    LET list == daily_actions[date]
        to_farm == { i \in DOMAIN list : list[i].farm_id = farm_id }
        last == CHOOSE i \in to_farm : \A j \in to_farm : j <= i
    IN  [ stp_id |-> list[last].stp_id, amount |-> list[last].amount_tons ]

\* all_dates: from January 1 to end_date
all_dates == [ d \in 1..end_date |-> d ]

\* sorted(dm.farms.keys())
sorted_farm_ids == FARM_IDS

\* the row appended to all_rows for a farm and a date
SolutionRow_ClosestPlant(date, farm_id) ==
    [ date |-> date, stp_id |-> farm_closest_stp(farm_id), farm_id |-> farm_id,
      tons |-> IF InActionMap(date, farm_id) THEN action_map(date, farm_id).amount
               ELSE 0 ]

SolutionRow(date, farm_id) ==
    IF InActionMap(date, farm_id)
    THEN [ date |-> date, stp_id |-> action_map(date, farm_id).stp_id,
           farm_id |-> farm_id, tons |-> action_map(date, farm_id).amount ]
    ELSE [ date |-> date, stp_id |-> farm_closest_stp(farm_id), farm_id |-> farm_id,
           tons |-> 0 ]

\* all_rows: farm by farm, and for each farm date by date
all_rows ==
    [ k \in 1..(Len(sorted_farm_ids) * Len(all_dates)) |->
        SolutionRow(all_dates[((k - 1) % Len(all_dates)) + 1],
                    sorted_farm_ids[((k - 1) \div Len(all_dates)) + 1]) ]

\* the lines of solution.csv: row_id counts from 0; tons are written with two
\* decimals, which is the unit the tons are counted in here
WriteSolution ==
    /\ pc = "done"
    /\ solution' = [ k \in DOMAIN all_rows |->
                       [ id |-> k - 1, date |-> all_rows[k].date,
                         stp_id |-> all_rows[k].stp_id, farm_id |-> all_rows[k].farm_id,
                         tons_delivered |-> all_rows[k].tons ] ]
    /\ pc' = "written"
    /\ UNCHANGED << stps, farms, weather_df, n_demand_df, end_date, curr_date,
                    actions, solved, start_storage, result, daily_actions, twin >>

Next == SolveDay \/ RunDaySolved \/ RunDayArbitrary \/ NextDay

NextLoop == SolveDay \/ RunDaySolved \/ NextDay \/ WriteSolution

Spec == Init /\ [][Next]_vars

SpecLoop == InitLoop /\ [][NextLoop]_vars

----------------------------------------------------------------------------
(* run_day fed full and just-over-full truck loads *)

\* 10.0 tons and 10.01 tons
TruckLoads == { truck_capacity, truck_capacity + 1 }

\* the action lists of one or two such loads, on any route
LoadLists ==
    UNION { [ 1..n -> [ stp_id : Range(STP_IDS), farm_id : Range(FARM_IDS),
                        amount_tons : TruckLoads ] ] : n \in 1..2 }

RunDayLoads ==
    /\ pc = "solve"
    /\ \E acts \in LoadLists : RunDay(acts)
    /\ solved' = FALSE

NextTrucks == RunDayLoads \/ NextDay

SpecTrucks == Init /\ [][NextTrucks]_vars

----------------------------------------------------------------------------
(* The closed loop when the plants stop producing after the first day *)

\* a plant that leaves half a ton behind a full truck load, and one that is idle
Big == [ daily_output |-> 1050, max_storage |-> 2000 ]
Idle == [ daily_output |-> 0, max_storage |-> 1000 ]

\* one producing plant beside an idle one, and the registries of two plants
DrainRegistries ==
    { << Big, Idle >>, << Fast, Idle >>, << Slow, Idle >> } \cup PlantRegistries

InitDrain ==
    /\ stps \in { [ p \in Range(STP_IDS) |-> NewSTP(rows[p]) ] : rows \in DrainRegistries }
    /\ \E ft \in FarmTables :
         /\ farms = [ f \in Range(FARM_IDS) |->
                        [ zone |-> f, area_ha |-> 5, distances |-> ft.site[f] ] ]
         /\ n_demand_df = [ d \in 1..DataDays |-> ft.demand ]
    /\ weather_df \in WeatherTables
    /\ end_date = LoopDays
    /\ curr_date = 1
    /\ pc = "solve"
    /\ actions = << >>
    /\ solved = FALSE
    /\ start_storage = [ p \in Range(STP_IDS) |-> 0 ]
    /\ result = NoResult
    /\ daily_actions = << >>
    /\ solution = << >>
    /\ twin = NoTwin

\* the loop's step to the next day, with every plant's daily_output set to zero
\* for the days that follow
NextDayStopped ==
    /\ pc = "settled"
    /\ curr_date' = curr_date + 1
    /\ pc' = IF curr_date + 1 <= end_date THEN "solve" ELSE "done"
    /\ stps' = [ p \in DOMAIN stps |-> [ stps[p] EXCEPT !.daily_output = 0 ] ]
    /\ actions' = << >>
    /\ solved' = FALSE
    /\ start_storage' = CurrentStorage
    /\ result' = NoResult
    /\ UNCHANGED << farms, weather_df, n_demand_df, end_date, daily_actions,
                    solution, twin >>

NextDrain == SolveDay \/ RunDaySolved \/ NextDayStopped

SpecDrain == InitDrain /\ [][NextDrain]_vars

----------------------------------------------------------------------------
(* run_day fed one truck load whole or in parts *)

\* 10 tons in one action, or in two or three actions
SplitShapes == { << 1000 >>, << 500, 500 >>, << 250, 750 >>, << 250, 250, 500 >> }

\* the parts as actions on one route
SplitLists ==
    { [ i \in DOMAIN parts |-> [ stp_id |-> p, farm_id |-> f, amount_tons |-> parts[i] ] ] :
        p \in Range(STP_IDS), f \in Range(FARM_IDS), parts \in SplitShapes }

RunDaySplit ==
    /\ pc = "solve"
    /\ \E acts \in SplitLists : RunDay(acts)
    /\ solved' = FALSE

NextSplit == RunDaySplit \/ NextDay

SpecSplit == Init /\ [][NextSplit]_vars

----------------------------------------------------------------------------
(* Two calls of solve_day compared: same date, same tables, one plant fuller *)

\* current_storage of a plant when solve_day is called: empty, 80% or 95% full
StorageLevels == { 0, 800, 950 }
\* the fuller storage of the second call: just above 80%, 95%, full
FullerLevels == { 801, 950, 1000 }

InitTwin ==
    /\ \E rows \in PlantRegistries :
         stps \in { [ p \in Range(STP_IDS) |->
                        [ NewSTP(rows[p]) EXCEPT !.current_storage = level[p] ] ] :
                    level \in { l \in [ Range(STP_IDS) -> StorageLevels ] :
                                  \A p \in Range(STP_IDS) : l[p] <= rows[p].max_storage } }
    /\ \E ft \in FarmTables :
         /\ farms = [ f \in Range(FARM_IDS) |->
                        [ zone |-> f, area_ha |-> 5, distances |-> ft.site[f] ] ]
         /\ n_demand_df = [ d \in 1..DataDays |-> ft.demand ]
    /\ weather_df \in WeatherTables
    /\ end_date = MaxDay
    /\ curr_date \in 1..MaxDay
    /\ pc = "solve"
    /\ actions = << >>
    /\ solved = FALSE
    /\ start_storage = CurrentStorage
    /\ result = NoResult
    /\ daily_actions = << >>
    /\ solution = << >>
    /\ twin = NoTwin

\* between the two calls one plant's current_storage is set from at most 80% of
\* max_storage to more than 80%; nothing else differs
Refill ==
    /\ pc = "run"
    /\ twin = NoTwin
    /\ \E p \in Range(STP_IDS), level \in FullerLevels :
         /\ ~PanicMode(stps[p])
         /\ level <= stps[p].max_storage
         /\ level * PANIC_DEN > PANIC_NUM * stps[p].max_storage
         /\ stps' = [ stps EXCEPT ![p].current_storage = level ]
         /\ twin' = [ stp_id |-> p, actions |-> actions ]
    /\ pc' = "solve"
    /\ actions' = << >>
    /\ solved' = FALSE
    /\ UNCHANGED << farms, weather_df, n_demand_df, end_date, curr_date,
                    start_storage, result, daily_actions, solution >>

NextTwin == SolveDay \/ Refill

SpecTwin == InitTwin /\ [][NextTwin]_vars

----------------------------------------------------------------------------
(* The closed loop over the last days of the rainfall data and the day after *)

\* a zone's rainfall column with 20 mm on each of the last two days of the data
Late == [ d \in 1..DataDays |-> IF d >= DataDays - 1 THEN 20 ELSE 0 ]

HorizonTables == { << Late, Dry >>, << Late, Late >>, << Dry, Late >> }

InitHorizon ==
    /\ \E rows \in PlantRegistries :
         stps \in { [ p \in Range(STP_IDS) |->
                        [ NewSTP(rows[p]) EXCEPT !.current_storage = level[p] ] ] :
                    level \in { l \in [ Range(STP_IDS) -> StorageLevels ] :
                                  \A p \in Range(STP_IDS) : l[p] <= rows[p].max_storage } }
    /\ \E ft \in FarmTables :
         /\ farms = [ f \in Range(FARM_IDS) |->
                        [ zone |-> f, area_ha |-> 5, distances |-> ft.site[f] ] ]
         /\ n_demand_df = [ d \in 1..DataDays |-> ft.demand ]
    /\ weather_df \in HorizonTables
    /\ end_date = DataDays + 1
    /\ curr_date = DataDays - 1
    /\ pc = "solve"
    /\ actions = << >>
    /\ solved = FALSE
    /\ start_storage = CurrentStorage
    /\ result = NoResult
    /\ daily_actions = << >>
    /\ solution = << >>
    /\ twin = NoTwin

NextHorizon == SolveDay \/ RunDaySolved \/ NextDay

SpecHorizon == InitHorizon /\ [][NextHorizon]_vars

----------------------------------------------------------------------------
(* What the claims speak of, stated on the day's action list *)

Plants == Range(STP_IDS)
Farms == Range(FARM_IDS)

\* the farm's zone is rain-locked on the current date
Locked(f) == is_rain_locked(curr_date, farms[f].zone)

\* the positions of `actions` that satisfy a test
FromPlant(p) == { i \in DOMAIN actions : actions[i].stp_id = p }
ToFarm(f) == { i \in DOMAIN actions : actions[i].farm_id = f }
LockedActions == { i \in DOMAIN actions : Locked(actions[i].farm_id) }
AcceptedActions == DOMAIN actions \ LockedActions

\* the tons of the actions at the positions I
TonsOf(I) == SumSeq([ i \in DOMAIN actions |-> IF i \in I THEN actions[i].amount_tons ELSE 0 ])

\* the action list without its rain-locked actions
IsAccepted(a) == ~Locked(a.farm_id)
WithoutLocked == SelectSeq(actions, IsAccepted)

\* solve_day has returned the list `actions` for curr_date
Solved == pc = "run"

\* run_day has returned `result` for curr_date and the list `actions`
Settled == pc = "settled"

\* the plant's fill ratio at the start of the day is above 0.8
InPanic(p) == 5 * stps[p].current_storage > 4 * stps[p].max_storage

----------------------------------------------------------------------------
(* The day's accounts, recomputed from the action list and the storage the day
   started with *)

\* tons that left the plant, rejected ones included
Dispatched(p) == TonsOf(FromPlant(p))

\* the plant's storage after production and dispatch, before the capacity check
SettledAt(p) == Max(0, start_storage[p] + stps[p].daily_output - Dispatched(p))

OverflowAt(p) == Max(0, SettledAt(p) - stps[p].max_storage)

TotalOverflow == SumSeq([ i \in DOMAIN STP_IDS |-> OverflowAt(STP_IDS[i]) ])

\* emissions of the action at position i: distance x trucks x emission factor
EmissionsOf(i) ==
    farms[actions[i].farm_id].distances[actions[i].stp_id]
        * Ceil(actions[i].amount_tons, truck_capacity) * emission_factor

EmissionsOfAll(I) ==
    SumSeq([ i \in DOMAIN actions |-> IF i \in I THEN EmissionsOf(i) ELSE 0 ])

\* the three kinds of penalty
DumpPenalties == TonsOf(LockedActions) * overflow_penalty
OverflowPenalties == TotalOverflow * overflow_penalty
LeachingPenalties ==
    SumSeq([ i \in DOMAIN FARM_IDS |->
               FarmLeaching(curr_date, FARM_IDS[i],
                            TonsOf(ToFarm(FARM_IDS[i]) \ LockedActions)) ])

----------------------------------------------------------------------------
(* C1: after every run_day, whatever the action lists of this and the earlier
   days, every plant has 0 <= current_storage <= max_storage *)
C1_StorageWithinCapacity ==
    \A p \in Plants :
        /\ 0 <= stps[p].current_storage
        /\ stps[p].current_storage <= stps[p].max_storage

\* a second run_day has returned: one plant overflowed and was reset to its
\* capacity, another was asked for more than it had
C1_Witness ==
    /\ Settled /\ curr_date = 2
    /\ result.overflow_tons > 0
    /\ \E p \in Plants : /\ start_storage[p] > 0
                         /\ TonsOf(FromPlant(p)) > start_storage[p] + stps[p].daily_output
                         /\ stps[p].current_storage = 0
    /\ \E p \in Plants : stps[p].max_storage > 0 /\ stps[p].current_storage = stps[p].max_storage

(* C2: the list solve_day returns holds at most one action per farm, so run_day
   of that list records at most one accepted delivery per farm *)
C2_OneActionPerFarm ==
    (Solved \/ (Settled /\ solved)) =>
        \A f \in Farms : Cardinality(ToFarm(f)) <= 1

\* solve_day returned actions of two different plants
C2_Witness ==
    /\ Solved
    /\ \E i, j \in DOMAIN actions : actions[i].stp_id # actions[j].stp_id

(* C3: solve_day never returns an action to a farm whose zone is rain-locked on
   the date, also for a plant in panic mode *)
C3_NoLockedActionProposed ==
    Solved => LockedActions = { }

\* solve_day returned actions of a plant in panic mode while a farm was locked
C3_Witness ==
    /\ Solved
    /\ \E f \in Farms : Locked(f)
    /\ \E i \in DOMAIN actions : InPanic(actions[i].stp_id)

(* C4: run_day's delivered_tons, credits and leaching penalties are those of the
   same list with the rain-locked actions removed: a rain-locked action adds
   nothing to them *)
C4_LockedActionsEarnNothing ==
    Settled =>
        /\ result.delivered_tons = DailyResult(curr_date, WithoutLocked).delivered_tons
        /\ result.credits = DailyResult(curr_date, WithoutLocked).credits
        /\ result.delivered_tons = TonsOf(AcceptedActions)
        /\ result.penalties - DumpPenalties - OverflowPenalties =
              FarmImpacts(curr_date, FARM_IDS,
                          ProcessActions(curr_date, WithoutLocked, ZeroTally).farm_deliveries
                         ).penalties
        /\ \A f \in Farms : Locked(f) => (result.credits =
               SumSeq([ i \in DOMAIN FARM_IDS |->
                          IF FARM_IDS[i] = f THEN 0
                          ELSE FarmCredits(curr_date, FARM_IDS[i],
                                           TonsOf(ToFarm(FARM_IDS[i]) \ LockedActions)) ]))

\* run_day was handed a rain-locked action and an accepted one, and the accepted
\* one earned credits and a leaching penalty
C4_Witness ==
    /\ Settled
    /\ LockedActions # { } /\ AcceptedActions # { }
    /\ result.credits > 0
    /\ LeachingPenalties > 0

(* C5: the tons solve_day emits from a plant sum to at most the plant's
   current_storage + daily_output at the start of the day *)
C5_DispatchWithinAvailable ==
    Solved =>
        \A p \in Plants :
            TonsOf(FromPlant(p)) <= stps[p].current_storage + stps[p].daily_output

\* a plant emitted two actions that together take all it had
C5_Witness ==
    /\ Solved
    /\ \E p \in Plants :
         /\ Cardinality(FromPlant(p)) = 2
         /\ TonsOf(FromPlant(p)) = stps[p].current_storage + stps[p].daily_output

(* C6 (as amended): each action to a rain-locked farm is counted as rejected,
   charged its transport emissions and tons x overflow_penalty, and its tons
   count as dispatched: the plant's storage before the capacity check is
   max(0, storage + output - dispatched) with the rejected tons included, and
   its end-of-day storage is that value capped at max_storage *)
C6_RejectedActionCharged ==
    Settled =>
        /\ result.banned_actions = Cardinality(LockedActions)
        /\ result.emissions =
              DailyResult(curr_date, WithoutLocked).emissions + EmissionsOfAll(LockedActions)
        /\ result.penalties - LeachingPenalties - OverflowPenalties =
              TonsOf(LockedActions) * overflow_penalty
        /\ \A p \in Plants :
              stps[p].current_storage = Min(stps[p].max_storage, SettledAt(p))

\* a rejected action left a plant that ends the day below its capacity, once
\* with material left and once asked for more than it had
C6_Witness ==
    /\ Settled
    /\ \E i \in LockedActions :
         LET p == actions[i].stp_id IN
         /\ FromPlant(p) \subseteq LockedActions
         /\ stps[p].current_storage = start_storage[p] + stps[p].daily_output - Dispatched(p)
         /\ stps[p].current_storage > 0
         /\ stps[p].current_storage < stps[p].max_storage
    /\ result.banned_actions = 2

(* C6 (as stated): ... the plant's end-of-day storage is
   max(0, storage + output - dispatched) *)
C6_Original ==
    Settled =>
        \A p \in Plants :
            FromPlant(p) \cap LockedActions # { } =>
                stps[p].current_storage = SettledAt(p)

(* C7: run_day sets every plant, with or without dispatches, to
   min(max_storage, max(0, current_storage + daily_output - dispatched));
   overflow_tons is the sum of the excess over max_storage and the penalties
   include it times overflow_penalty *)
C7_StorageUpdateAndOverflow ==
    Settled =>
        /\ \A p \in Plants :
              stps[p].current_storage =
                  Min(stps[p].max_storage,
                      Max(0, start_storage[p] + stps[p].daily_output - Dispatched(p)))
        /\ result.overflow_tons = TotalOverflow
        /\ result.penalties >= result.overflow_tons * overflow_penalty
        /\ result.penalties - DumpPenalties - LeachingPenalties =
              result.overflow_tons * overflow_penalty

\* a plant without dispatches overflowed while another one dispatched
C7_Witness ==
    /\ Settled
    /\ \E p \in Plants : FromPlant(p) = { } /\ OverflowAt(p) > 0
    /\ \E p \in Plants : FromPlant(p) # { } /\ stps[p].current_storage > 0
    /\ result.overflow_tons > 0

(* C8: every DailyResult has net_score = credits - emissions - penalties, and
   penalties is the sum of the leaching, overflow and rain-lock dump penalties *)
C8_NetScore ==
    Settled =>
        /\ result.net_score = result.credits - result.emissions - result.penalties
        /\ result.penalties = LeachingPenalties + OverflowPenalties + DumpPenalties

\* a day with credits, emissions and all three kinds of penalty
C8_Witness ==
    /\ Settled
    /\ result.credits > 0 /\ result.emissions > 0
    /\ LeachingPenalties > 0 /\ OverflowPenalties > 0 /\ DumpPenalties > 0

----------------------------------------------------------------------------
(* The solver's candidates, read off the list it returned *)

\* the plant's place in the triage order
TriagePlace(p) == CHOOSE i \in DOMAIN sorted_stps : sorted_stps[i] = p

\* the farm was assigned to a plant ahead of p in the triage order
TakenAhead(f, p) ==
    \E i \in ToFarm(f) : TriagePlace(actions[i].stp_id) < TriagePlace(p)

\* the farms the plant could choose from
Candidates(p) == { f \in Farms : ~Locked(f) /\ ~TakenAhead(f, p) }

\* the score of the plant's candidate f
CandidateNCI(p, f) ==
    net_carbon_impact(curr_date, p, f, load_tons_for(available_tons(stps[p])))

At95Percent(p) ==
    stps[p].max_storage > 0 /\ 100 * stps[p].current_storage = 95 * stps[p].max_storage

(* C9 (as amended): a plant at 95% fill that has at least 1.0 ton available, on
   a date where no farm's zone is rain-locked and at least one farm has not been
   assigned to a plant ahead of it in the triage order, has at least one action
   in the list solve_day returns, even if every candidate's NCI is negative *)
C9_PanicModeDispatches ==
    Solved =>
        \A p \in Plants :
            ( /\ At95Percent(p)
              /\ available_tons(stps[p]) >= NEGLIGIBLE_LOAD
              /\ \A f \in Farms : ~Locked(f)
              /\ \E f \in Farms : ~TakenAhead(f, p) )
            => FromPlant(p) # { }

\* a plant at 95% fill whose candidates all have a negative NCI emitted an action
C9_Witness ==
    /\ Solved
    /\ \E p \in Plants :
         /\ At95Percent(p)
         /\ \A f \in Farms : ~Locked(f)
         /\ Candidates(p) # { }
         /\ \A f \in Candidates(p) : CandidateNCI(p, f) < 0
         /\ FromPlant(p) # { }

(* C9 (as stated): a plant at 95% fill, on a date where no farm's zone is
   rain-locked and a farm exists, emits at least one action *)
C9_Original ==
    Solved =>
        \A p \in Plants :
            ( /\ At95Percent(p)
              /\ \A f \in Farms : ~Locked(f)
              /\ Farms # { } )
            => FromPlant(p) # { }

(* C10: a plant whose fill ratio is at most 0.8 and whose candidates all have a
   negative NCI emits no action that day *)
C10_NoDispatchWhenAllNegative ==
    Solved =>
        \A p \in Plants :
            ( /\ stps[p].max_storage > 0
              /\ 5 * stps[p].current_storage <= 4 * stps[p].max_storage
              /\ \A f \in Candidates(p) : CandidateNCI(p, f) < 0 )
            => FromPlant(p) = { }

\* a plant at no more than 10% fill with material to send and candidates, all of
\* negative NCI, emitted nothing
C10_Witness ==
    /\ Solved
    /\ \E p \in Plants :
         /\ stps[p].max_storage > 0
         /\ stps[p].current_storage > 0
         /\ 10 * stps[p].current_storage <= stps[p].max_storage
         /\ available_tons(stps[p]) >= NEGLIGIBLE_LOAD
         /\ Candidates(p) # { }
         /\ \A f \in Candidates(p) : CandidateNCI(p, f) < 0
         /\ FromPlant(p) = { }

----------------------------------------------------------------------------
\* the number of actions of a list that leave plant p
CountFrom(list, p) == Cardinality({ i \in DOMAIN list : list[i].stp_id = p })

\* both calls of the comparison have returned
Compared == pc = "run" /\ twin.stp_id # 0

\* C11: when solve_day is called twice on the same date and the same tables, and
\* the only difference is that one plant is at most 80% full in the first call
\* and more than 80% full in the second, the second call returns at least as
\* many actions from that plant as the first
C11_PanicModeMonotone ==
    Compared =>
        CountFrom(actions, twin.stp_id) >= CountFrom(twin.actions, twin.stp_id)

\* the plant exactly 80% full dispatched nothing (no farm pays), and just above
\* 80% it dispatches
C11_Witness ==
    /\ Compared
    /\ start_storage[twin.stp_id] * PANIC_DEN = PANIC_NUM * stps[twin.stp_id].max_storage
    /\ CountFrom(twin.actions, twin.stp_id) = 0
    /\ CountFrom(actions, twin.stp_id) > 0

----------------------------------------------------------------------------
\* the rain recorded for a zone on a date, none where the table has no row
RainOn(zone, d) ==
    IF d \in DOMAIN weather_df[zone] THEN weather_df[zone][d] ELSE 0

\* the rain of the n days from date d on
RECURSIVE RainFrom(_, _, _)
RainFrom(zone, d, n) ==
    IF n = 0 THEN 0 ELSE RainOn(zone, d) + RainFrom(zone, d + 1, n - 1)

----------------------------------------------------------------------------
\* the least number of trucks that together hold the tons of action i
TrucksFor(i) ==
    CHOOSE k \in 0..(actions[i].amount_tons + 1) :
        /\ k * truck_capacity >= actions[i].amount_tons
        /\ (k - 1) * truck_capacity < actions[i].amount_tons

RECURSIVE TruckEmissions(_)
TruckEmissions(I) ==
    IF I = { } THEN 0
    ELSE LET i == CHOOSE j \in I : TRUE
         IN  farms[actions[i].farm_id].distances[actions[i].stp_id] * TrucksFor(i)
               * emission_factor
             + TruckEmissions(I \ { i })

\* C13: the number of trucks charged for an action is the ceiling of its tons
\* over truck_capacity, one truck for 10.0 tons and two for 10.01 tons, for the
\* accepted actions and for the rain-locked ones alike
C13_TrucksAreCeiling ==
    Settled =>
        /\ result.emissions = TruckEmissions(DOMAIN actions)
        /\ \A i \in DOMAIN actions :
             /\ actions[i].amount_tons = truck_capacity => TrucksFor(i) = 1
             /\ actions[i].amount_tons = truck_capacity + 1 => TrucksFor(i) = 2

\* a rejected load of 10.01 tons and an accepted load of 10.0 tons in one day
C13_Witness ==
    /\ Settled
    /\ \E i \in LockedActions : actions[i].amount_tons = truck_capacity + 1
    /\ \E i \in AcceptedActions : actions[i].amount_tons = truck_capacity
    /\ result.emissions > 0

----------------------------------------------------------------------------
\* solve_day is about to be called and no plant has 1.0 ton of storage plus
\* production
Drained ==
    /\ pc = "solve"
    /\ \A p \in Plants : available_tons(stps[p]) < NEGLIGIBLE_LOAD

\* C14: in the closed loop with no production after day 1, from the first day on
\* which storage plus production is below 1.0 ton at every plant, solve_day
\* returns an empty list on that day and on every later day
C14_DrainedStaysEmpty == [](Drained => [](Solved => actions = << >>))

\* a later day without rain: the plant that delivered a truck load on day 1 has
\* half a ton left, produces nothing, and solve_day returns no action
C14_Witness ==
    /\ Solved
    /\ curr_date > 2
    /\ actions = << >>
    /\ \A z \in ZONES : \A d \in DOMAIN weather_df[z] : weather_df[z][d] = 0
    /\ \A p \in Plants : stps[p].daily_output = 0
    /\ \E p \in Plants :
         /\ stps[p].current_storage > 0
         /\ stps[p].current_storage < NEGLIGIBLE_LOAD
         /\ \A q \in Plants \ { p } : stps[q].current_storage = 0

----------------------------------------------------------------------------
\* C15: a plant with max_storage = 0 counts as fill ratio 0 in the triage and in
\* the panic-mode test, and solve_day returns an action list without raising on
\* every day, also when such a plant has 1.0 ton or more available and a farm
\* that is not rain-locked is open to it
C15_ZeroCapacityPlantNeverRaises ==
    /\ pc # "crashed"
    /\ Solved =>
         \A p \in Plants :
             stps[p].max_storage = 0 =>
                 /\ ~InPanic(p)
                 /\ \A q \in Plants :
                      stps[q].current_storage > 0 /\ stps[q].max_storage > 0
                          => TriagePlace(q) < TriagePlace(p)

----------------------------------------------------------------------------
\* the lines of solution.csv for a date and a farm
RowsOf(d, f) == { k \in DOMAIN solution : solution[k].date = d /\ solution[k].farm_id = f }

\* the actions solve_day returned on date d that go to farm f
EmittedTo(d, f) == { i \in DOMAIN daily_actions[d] : daily_actions[d][i].farm_id = f }

Written == pc = "written"

\* C16: the output table of the annual driver has exactly one row for every
\* (date, farm) pair; the row carries the plant and the tons of the action
\* solve_day returned for that farm on that date, or 0 tons when it returned none
C16_OneRowPerDateAndFarm ==
    Written =>
        /\ Len(solution) = end_date * Cardinality(Farms)
        /\ \A d \in 1..end_date, f \in Farms :
             /\ Cardinality(RowsOf(d, f)) = 1
             /\ \A k \in RowsOf(d, f) :
                  /\ \A i \in EmittedTo(d, f) :
                       /\ solution[k].stp_id = daily_actions[d][i].stp_id
                       /\ solution[k].tons_delivered = daily_actions[d][i].amount_tons
                  /\ EmittedTo(d, f) = { } => solution[k].tons_delivered = 0

\* a table with a delivery from the plant that is not the farm's closest one and
\* with a row of 0 tons
C16_Witness ==
    /\ Written
    /\ \E k \in DOMAIN solution :
         /\ solution[k].tons_delivered > 0
         /\ solution[k].stp_id # farm_closest_stp(solution[k].farm_id)
    /\ \E k \in DOMAIN solution : solution[k].tons_delivered = 0

----------------------------------------------------------------------------
\* C17: solve_day leaves every plant's current_storage, and every other field of
\* the plants and farms, as it found them; in the loop current_storage changes
\* only inside run_day, once per day, after that day's solve_day has returned
C17_SolveDayLeavesStorage ==
    [][ /\ pc = "solve" => stps' = stps /\ farms' = farms
        /\ CurrentStorage' # CurrentStorage =>
              /\ pc = "run" /\ solved
              /\ pc' = "settled"
              /\ curr_date' = curr_date
        /\ pc = "settled" => pc' # "run" /\ curr_date' > curr_date
      ]_vars

\* solve_day has returned actions on a later day and the storage is still what
\* the previous run_day left
C17_Witness ==
    /\ Solved
    /\ curr_date > 1
    /\ actions # << >>
    /\ CurrentStorage = start_storage
    /\ \E p \in Plants : stps[p].current_storage > 0

----------------------------------------------------------------------------
\* the plants asked for more than their storage plus the day's production
OverDispatched == { p \in Plants : Dispatched(p) > start_storage[p] + stps[p].daily_output }

\* C18: when the actions of a plant ask for more than its storage plus
\* production, run_day still returns its result, sets that plant's storage to 0
\* and counts the full requested tons of the actions that are not rain-locked in
\* delivered_tons, credits and emissions
C18_OverDispatchCountedInFull ==
    (Settled /\ OverDispatched # { }) =>
        /\ result.date = curr_date
        /\ \A p \in OverDispatched : stps[p].current_storage = 0
        /\ result.delivered_tons = TonsOf(AcceptedActions)
        /\ result.credits =
              SumSeq([ i \in DOMAIN FARM_IDS |->
                         FarmCredits(curr_date, FARM_IDS[i],
                                     TonsOf(ToFarm(FARM_IDS[i]) \ LockedActions)) ])
        /\ result.emissions = EmissionsOfAll(DOMAIN actions)

\* a plant with material was asked, by actions that are not rain-locked, for
\* more than it had
C18_Witness ==
    /\ Settled
    /\ \E p \in OverDispatched :
         /\ start_storage[p] > 0
         /\ FromPlant(p) \subseteq AcceptedActions
         /\ result.delivered_tons >= Dispatched(p)
    /\ result.credits > 0

----------------------------------------------------------------------------
\* plant p is less full than plant q: current_storage / max_storage compared,
\* a plant without storage counting as empty
LessFull(p, q) ==
    LET fill(x) == IF stps[x].max_storage = 0 THEN << 0, 1 >>
                   ELSE << stps[x].current_storage, stps[x].max_storage >>
    IN  fill(p)[1] * fill(q)[2] < fill(q)[1] * fill(p)[2]

\* C19: solve_day serves the plants in descending order of fill ratio and a farm
\* goes to the first plant that takes it: in the returned list every action of
\* a fuller plant comes before every action of a less full one, and no farm
\* taken by a plant is taken again by a plant served later
C19_FullerPlantsFirst ==
    Solved =>
        \A i, j \in DOMAIN actions :
            i < j =>
                /\ ~LessFull(actions[i].stp_id, actions[j].stp_id)
                /\ actions[i].farm_id # actions[j].farm_id

\* the plant listed second in the registry is the fuller one: its action comes
\* first and the other plant is left with the other farm
C19_Witness ==
    /\ Solved
    /\ \E i, j \in DOMAIN actions :
         /\ i < j
         /\ actions[i].stp_id > actions[j].stp_id
         /\ LessFull(actions[j].stp_id, actions[i].stp_id)
         /\ \A f \in Farms : ~Locked(f)

----------------------------------------------------------------------------
\* what the plant has left after the actions of the list
LeftOver(p) == available_tons(stps[p]) - Dispatched(p)

\* C20: a plant whose fill ratio is at most 0.8 walks its candidates in
\* non-increasing NCI order and stops at the first one whose NCI is not above 0:
\* every action it emits has NCI > 0, its actions are in non-increasing NCI
\* order, and a candidate it leaves out either has NCI <= 0 or ranks no higher
\* than every emitted one and was reached with less than 1.0 ton left
C20_GreedyCutoff ==
    Solved =>
        \A p \in Plants :
            (stps[p].max_storage > 0 /\ ~InPanic(p)) =>
                /\ \A i \in FromPlant(p) : CandidateNCI(p, actions[i].farm_id) > 0
                /\ \A i, j \in FromPlant(p) :
                     i < j => CandidateNCI(p, actions[i].farm_id)
                                >= CandidateNCI(p, actions[j].farm_id)
                /\ \A f \in Candidates(p) :
                     (ToFarm(f) \cap FromPlant(p) = { } /\ CandidateNCI(p, f) > 0) =>
                         /\ LeftOver(p) < NEGLIGIBLE_LOAD
                         /\ \A i \in FromPlant(p) :
                              CandidateNCI(p, actions[i].farm_id) >= CandidateNCI(p, f)

\* a plant at no more than 80% took the farm that pays and stopped at the one
\* that does not, with more than a ton left
C20_Witness ==
    /\ Solved
    /\ \E p \in Plants :
         /\ stps[p].max_storage > 0 /\ ~InPanic(p)
         /\ stps[p].current_storage > 0
         /\ FromPlant(p) # { }
         /\ LeftOver(p) >= NEGLIGIBLE_LOAD
         /\ \E f \in Candidates(p) :
              /\ CandidateNCI(p, f) <= 0
              /\ ToFarm(f) = { }

----------------------------------------------------------------------------
\* what plant p had left when the action at position i was emitted
RemainingAt(p, i) ==
    available_tons(stps[p]) - TonsOf({ j \in FromPlant(p) : j < i })

\* the load the plant's candidates were scored with
ScoredLoad(p) == load_tons_for(available_tons(stps[p]))

\* C21: for every action solve_day emits, the load its candidate was scored
\* with is the lesser of what the plant had left at that point and one truck
\* capacity, and it is the tons of the emitted action
C21_ScoredLoadIsEmittedLoad ==
    Solved =>
        \A i \in DOMAIN actions :
            /\ ScoredLoad(actions[i].stp_id)
                  = Min(RemainingAt(actions[i].stp_id, i), truck_capacity)
            /\ ScoredLoad(actions[i].stp_id) = actions[i].amount_tons

----------------------------------------------------------------------------
\* C22: a plant whose storage plus production is below 1.0 ton emits no action
\* that day; every action solve_day emits carries between 1.0 ton and one truck
\* capacity, and none is emitted once the plant has less than 1.0 ton left
C22_LoadsBetweenOneTonAndATruck ==
    Solved =>
        /\ \A p \in Plants :
              available_tons(stps[p]) < NEGLIGIBLE_LOAD => FromPlant(p) = { }
        /\ \A i \in DOMAIN actions :
              /\ actions[i].amount_tons > 0
              /\ actions[i].amount_tons >= NEGLIGIBLE_LOAD
              /\ actions[i].amount_tons <= truck_capacity
              /\ RemainingAt(actions[i].stp_id, i) >= NEGLIGIBLE_LOAD

\* a plant sent a full truck and stopped with half a ton left although a farm
\* that pays was still open; the other plant had nothing to send
C22_Witness ==
    /\ Solved
    /\ \E p \in Plants :
         /\ \E i \in FromPlant(p) : actions[i].amount_tons = truck_capacity
         /\ LeftOver(p) > 0 /\ LeftOver(p) < NEGLIGIBLE_LOAD
         /\ \E f \in Candidates(p) : ToFarm(f) = { } /\ CandidateNCI(p, f) > 0
    /\ \E p \in Plants : available_tons(stps[p]) < NEGLIGIBLE_LOAD

----------------------------------------------------------------------------
\* the demand table has no entry for the farm on the current date
NoDemandEntry(f) ==
    curr_date \notin DOMAIN n_demand_df \/ f \notin DOMAIN n_demand_df[curr_date]

\* the accepted tons a farm received
AcceptedTons(f) == TonsOf(ToFarm(f) \ LockedActions)

\* C23: a farm without a demand entry for the date has nitrogen demand 0 in
\* run_day and in solve_day: a delivery to it earns the soil credit and no
\* nitrogen-offset credit, its whole nitrogen load (tons x nitrogen content) is
\* charged as leaching excess, and solve_day scores it the same way and may
\* still dispatch to it
C23_NoDemandEntryIsZeroDemand ==
    /\ Settled =>
          /\ result.credits =
                SumSeq([ i \in DOMAIN FARM_IDS |->
                           IF NoDemandEntry(FARM_IDS[i])
                           THEN AcceptedTons(FARM_IDS[i]) * soil_credit_per_ton
                           ELSE FarmCredits(curr_date, FARM_IDS[i],
                                            AcceptedTons(FARM_IDS[i])) ])
          /\ result.penalties - DumpPenalties - OverflowPenalties =
                SumSeq([ i \in DOMAIN FARM_IDS |->
                           IF NoDemandEntry(FARM_IDS[i])
                           THEN AcceptedTons(FARM_IDS[i]) * n_content * leaching_penalty
                           ELSE FarmLeaching(curr_date, FARM_IDS[i],
                                             AcceptedTons(FARM_IDS[i])) ])
    /\ Solved =>
          \A p \in Plants, f \in Farms :
              (NoDemandEntry(f) /\ available_tons(stps[p]) >= NEGLIGIBLE_LOAD) =>
                  CandidateNCI(p, f) =
                      ScoredLoad(p) * SOLVER_SOIL_BENEFIT
                        - farms[f].distances[p] * SOLVER_TRANSPORT_COST
                        - ScoredLoad(p) * n_content * SOLVER_LEACHING

\* run_day has settled a delivery solve_day made to a farm without a demand
\* entry, while the other farm has one
C23_Witness ==
    /\ Settled /\ solved
    /\ \E f \in Farms :
         /\ NoDemandEntry(f)
         /\ AcceptedTons(f) > 0
         /\ result.credits >= AcceptedTons(f) * soil_credit_per_ton
         /\ LeachingPenalties >= AcceptedTons(f) * n_content * leaching_penalty
    /\ \E f \in Farms : ~NoDemandEntry(f)

----------------------------------------------------------------------------
\* the routes, plant by plant
Routes == { << p, f >> : p \in Plants, f \in Farms }

\* the accepted actions of the day's list on one route
OnRoute(r) == { i \in AcceptedActions : actions[i].stp_id = r[1] /\ actions[i].farm_id = r[2] }

\* the day's accepted actions with the actions of a route merged into one
RECURSIVE MergedOver(_)
MergedOver(R) ==
    IF R = { } THEN << >>
    ELSE LET r == CHOOSE x \in R : TRUE IN
         IF OnRoute(r) = { } THEN MergedOver(R \ { r })
         ELSE << [ stp_id |-> r[1], farm_id |-> r[2], amount_tons |-> TonsOf(OnRoute(r)) ] >>
                \o MergedOver(R \ { r })

Merged == MergedOver(Routes)

\* the tons of a list that leave plant p
MergedFrom(p) ==
    SumSeq([ i \in DOMAIN Merged |->
               IF Merged[i].stp_id = p THEN Merged[i].amount_tons ELSE 0 ])

\* C24: run_day computes credits and leaching once per farm on the farm's
\* accepted tons of the day and emissions per action: an accepted action given
\* as several actions on the same route with the same total leaves credits,
\* leaching penalty, delivered_tons and end-of-day storage as they are for the
\* single action, and emissions are the sum over the actions of
\* distance x ceil(tons / truck_capacity) x emission_factor
C24_SplitLeavesFarmAccounts ==
    (Settled /\ LockedActions = { }) =>
        /\ result.credits = DailyResult(curr_date, Merged).credits
        /\ result.delivered_tons = DailyResult(curr_date, Merged).delivered_tons
        /\ result.penalties - OverflowPenalties =
              FarmImpacts(curr_date, FARM_IDS,
                          ProcessActions(curr_date, Merged, ZeroTally).farm_deliveries
                         ).penalties
        /\ \A p \in Plants :
              stps[p].current_storage =
                  Min(stps[p].max_storage,
                      Max(0, start_storage[p] + stps[p].daily_output - MergedFrom(p)))
        /\ result.emissions = EmissionsOfAll(DOMAIN actions)

\* ten tons went to a farm in three parts: three trucks were charged where the
\* single action is charged one, and the farm earned credits and a leaching
\* penalty on the ten tons
C24_Witness ==
    /\ Settled /\ LockedActions = { }
    /\ Len(actions) = 3 /\ Len(Merged) = 1
    /\ result.emissions = 3 * DailyResult(curr_date, Merged).emissions
    /\ result.emissions > 0
    /\ result.credits > 0
    /\ LeachingPenalties > 0

----------------------------------------------------------------------------
\* the date is one of the rainfall table's
KnownDate(zone, d) == d \in DOMAIN weather_df[zone]

\* C25: the forecast window always has exactly lookahead_days entries: a day
\* past the end of the rainfall data counts as 0 and a date that is not in the
\* data gives a window of zeros, so near the end of the data is_rain_locked
\* depends on the rain of the remaining days only and no zone is locked on an
\* unknown date
C25_WindowPaddedWithZeros ==
    \A zone \in ZONES, d \in 0..(DataDays + 2) :
        /\ \A n \in 1..(forecast_window + 1) :
              /\ Len(get_weather_forecast(d, zone, n)) = n
              /\ \A i \in 1..n :
                    get_weather_forecast(d, zone, n)[i] =
                        IF KnownDate(zone, d) THEN RainOn(zone, d + i - 1) ELSE 0
        /\ is_rain_locked(d, zone) <=>
              /\ KnownDate(zone, d)
              /\ RainFrom(zone, d, Min(forecast_window, DataDays - d + 1)) > rain_threshold
        /\ ~KnownDate(zone, d) => ~is_rain_locked(d, zone)

\* the day after the data ends: solve_day delivers to a farm whose zone was
\* locked two days earlier by the rain of the last two days of the data, and not
\* the day before, when one day of rain was left
C25_Witness ==
    /\ Solved
    /\ \E f \in Farms :
         /\ ~KnownDate(farms[f].zone, curr_date)
         /\ ToFarm(f) # { }
         /\ is_rain_locked(curr_date - 2, farms[f].zone)
         /\ RainFrom(farms[f].zone, curr_date - 2, 2) > rain_threshold
         /\ ~is_rain_locked(curr_date - 1, farms[f].zone)
         /\ RainOn(farms[f].zone, curr_date - 1) > 0

----------------------------------------------------------------------------
\* C26: in the closed loop, where run_day gets the list solve_day returned for
\* the same date, every DailyResult has banned_actions = 0 and no rain-lock dump
\* penalty is charged
C26_ClosedLoopNeverBanned ==
    Settled =>
        /\ result.banned_actions = 0
        /\ LockedActions = { }
        /\ result.penalties = LeachingPenalties + OverflowPenalties

\* a day of the loop on which a farm is rain-locked and the solver delivered to
\* the other farm
C26_Witness ==
    /\ Settled /\ solved
    /\ \E f \in Farms : Locked(f)
    /\ result.delivered_tons > 0
    /\ result.banned_actions = 0

----------------------------------------------------------------------------
\* C27: in the closed loop material is conserved at every plant on every day:
\* the tons dispatched are at most current_storage + daily_output, so the clamp
\* at 0 never acts, and storage before + daily_output = storage after + tons
\* dispatched + tons overflowed at the plant
C27_MaterialConserved ==
    Settled =>
        \A p \in Plants :
            /\ Dispatched(p) <= start_storage[p] + stps[p].daily_output
            /\ start_storage[p] + stps[p].daily_output =
                  stps[p].current_storage + Dispatched(p) + OverflowAt(p)

\* a later day of the loop: one plant dispatched part of what it had and kept
\* the rest, another overflowed
C27_Witness ==
    /\ Settled /\ solved
    /\ curr_date > 1
    /\ \E p \in Plants :
         /\ start_storage[p] > 0
         /\ Dispatched(p) > 0
         /\ stps[p].current_storage > 0
    /\ \E p \in Plants : OverflowAt(p) > 0

----------------------------------------------------------------------------
\* C28: the panic-mode test looks at the plant's current_storage / max_storage
\* at the start of the day, the day's production left out, and is the same for
\* every candidate of the plant: a plant with current_storage <= 0.8 x
\* max_storage emits no action with NCI <= 0, also when current_storage +
\* daily_output is above max_storage, and a plant above 0.8 x max_storage takes
\* every candidate until its farms are used up or it has less than 1.0 ton left
C28_PanicTestOnStartOfDayStorage ==
    /\ Solved =>
          \A p \in Plants :
              stps[p].max_storage > 0 =>
                  /\ 5 * stps[p].current_storage <= 4 * stps[p].max_storage =>
                        \A i \in FromPlant(p) : CandidateNCI(p, actions[i].farm_id) > 0
                  /\ 5 * stps[p].current_storage > 4 * stps[p].max_storage =>
                        \A f \in Candidates(p) :
                            \/ ToFarm(f) \cap FromPlant(p) # { }
                            \/ LeftOver(p) < NEGLIGIBLE_LOAD
    /\ Settled /\ solved =>
          \A p \in Plants :
              /\ Dispatched(p) = 0
              /\ start_storage[p] + stps[p].daily_output > stps[p].max_storage
              => OverflowAt(p) =
                    start_storage[p] + stps[p].daily_output - stps[p].max_storage

\* a plant at 70% that will overflow today has open farms, none of which pays,
\* and emits nothing
C28_Witness ==
    /\ Solved
    /\ \E p \in Plants :
         /\ 10 * stps[p].current_storage = 7 * stps[p].max_storage
         /\ available_tons(stps[p]) > stps[p].max_storage
         /\ Candidates(p) # { }
         /\ \A f \in Candidates(p) : CandidateNCI(p, f) <= 0
         /\ FromPlant(p) = { }

====
